---- MODULE Spec2Model ----
(***************************************************************************)
(* Verification model of the tutorial notebooks.                           *)
(*                                                                         *)
(* The notebooks are sequential scripts: a notebook is modelled as a       *)
(* program counter over its code cells, its global variables, and the      *)
(* state of the remote services the cells talk to (the TAP service and     *)
(* its asynchronous jobs, the Butler repository).  The helper functions    *)
(* the notebooks define (sort_dataframe, cutout_coadd) and the loops they  *)
(* write out (the light-curve loop, phase folding) are modelled by what    *)
(* their statements compute.                                               *)
(*                                                                         *)
(*   SpecTap     TAP notebook, sections 2 and 4 (synchronous and           *)
(*               asynchronous queries)                                     *)
(*   SpecSort    sort_dataframe on arbitrary frames                        *)
(*   SpecCutout  cutout_coadd on a small sky map                           *)
(*   SpecLoop    the light-curve loop over the dataset refs (Option A)     *)
(*   SpecPhase   phase folding of the light curve                          *)
(*   SpecRGB     createRGB on images of any number of bands                *)
(*   SpecPreview the calexp data-ID preview cell                           *)
(*   SpecButler  the requests made to the Butler repository                *)
(*   SpecSchema  the schema-discovery cell                                 *)
(*   SpecDetect  source detection, deblending and measurement              *)
(*   SpecNames   names read and assigned by the TAP notebook's statements  *)
(***************************************************************************)
EXTENDS Integers, Sequences, FiniteSets, TLC

(***************************************************************************)
(* Bounds of the model.                                                    *)
(***************************************************************************)
\* number of rows of the object table
NumObjects == 2
\* the notebook sets max_rec = 5; the model runs it scaled down
max_rec == 1
\* job URLs the TAP service can hand out
MaxJobs == 2
\* rows of a frame handed to sort_dataframe
MaxRows == 3
\* the sky map: a tract of NumPatches x NumPatches patches, each with an inner
\* region of PatchInner x PatchInner pixels and a border of PatchBorder pixels
NumPatches == 2
PatchInner == 4
PatchBorder == 1
\* the largest cutoutSideLength tried
MaxSide == 4
\* dataset refs returned by the query, and sources in one src catalog
MaxRefs == 2
MaxSrc == 2
\* measurements folded, the latest time (in fifths of a day) and the longest
\* period (in fifths of a day)
MaxObs == 3
MaxTime == 10
MaxPeriod == 4

\* filters a MultibandExposure can hold
MaxBands == 4

\* visits the repository can hold a calexp of
MaxVisits == 5

\* requests to the Butler in one session, and the largest pixel value kept
MaxRequests == 4
MaxPixel == 3

\* schemas the TAP service lists
MaxSchemas == 4

\* sources SourceDetectionTask can find, and PSF widths
MaxSources == 3
MaxPsf == 2

\* "if np.min(sep.arcsecond) < 1.5", in tenths of an arcsecond
SepLimit == 15

\* "AND mag_r < 24" in the queries of section 2.1
MagLimit == 24

VARIABLES
    \* ---- TAP notebook
    pc,                 \* the next code cell to run, "done" or "error"
    failed,             \* the cell whose exception stopped the run ("" if none)
    query,              \* notebook global `query`
    results,            \* notebook global `results`
    results1,           \* notebook global `results1`
    object_type_histogram,
    async_results,      \* notebook global `async_results`
    retrieved_results,  \* notebook global `retrieved_results`
    job,                \* notebook global `job`: the URL of the job it handles
    retrieved_job,      \* notebook global `retrieved_job`
    catalog,            \* the rows of dp01_dc2_catalogs.object (read-only)
    jobs,               \* the TAP service's jobs, by URL
    calls,              \* history: the calls made on `job`, with the phase seen
    \* ---- sort_dataframe on its own
    spc,                \* "input", "sort_a", "sort_b", "done" or "error"
    key_arg,            \* the value passed as sort_key
    df_a, df_b,         \* two frames handed to sort_dataframe
    out_a, out_b,       \* what sort_dataframe returned for them
    \* ---- cutout_coadd
    cpc,                \* "call", "returned", "printed" or "error"
    radec,              \* (ra, dec) as its place in the tract's pixel frame,
                        \* in half pixels: [x, y]
    cutoutSideLength,   \* the cutoutSideLength argument
    bbox,               \* the bounding box requested: [min, extent]
    patch,              \* the patch findPatch chose: [x, y]
    cutout_shape,       \* the shape of the image the Butler returned
    \* ---- the light-curve loop (Option A)
    lpc,                \* "loop", "done" or "error"
    refs,               \* the dataset refs; each stands for its src catalog,
                        \* the separations of its sources from the target
    Nrefs,              \* notebook global Nrefs
    idx,                \* the loop index i
    lightcurve,         \* the entries appended to the *_arr lists
    ngets,              \* Butler retrievals of a src catalog made so far
    \* ---- phase folding
    ppc,                \* "norm", "fold" or "done"
    mjd_days,           \* the observation times
    best_period,        \* the period found
    mjd_norm,           \* notebook global mjd_norm
    phase,              \* notebook global phase
    \* ---- createRGB
    rpc,                \* "call", "returned" or "error"
    image,              \* the MultibandExposure: its filters, in order
    bgr,                \* the bgr argument
    scale,              \* the scale argument: "None" or "list"
    rgb,                \* the bands put in the R, G and B channels
    \* ---- the calexp data-ID preview cell
    vpc,                \* "query", "loop", "done" or "error"
    collection_known,   \* whether the repository has the collection
    calexps,            \* the calexp datasets of the collection: their visits
    datasetRefs,        \* notebook global datasetRefs
    vi,                 \* the loop index i
    printed,            \* the visits whose data IDs were printed, in order
    \* ---- requests to the Butler repository
    bpc,                \* "closed" or "open"
    repository,         \* the datasets stored in the repository
    repository0,        \* history: the repository before the notebook ran
    writeable,          \* whether the Butler was opened for writing
    requests,           \* history: the requests made to the Butler
    calexp,             \* notebook global calexp: the in-memory exposure
    bkgd,               \* notebook global bkgd: the in-memory background
    \* ---- the schema-discovery cell
    hpc,                \* "loop", "print", "done" or "error"
    schema_names,       \* notebook global schema_names
    name_i,             \* how far the for loop has got in schema_names
    dp01_schema_name,   \* notebook global dp01_schema_name, None if unassigned
    scanned,            \* history: the names the loop has examined
    raised,             \* the exception that ended the cell ("" if none)
    \* ---- source detection
    dpc,                \* the next step of the source-detection cells
    schema,             \* notebook global schema: the fields it holds
    constructed,        \* history: the tasks constructed, in order
    tab,                \* notebook global tab: the schema of the SourceTable
    psf,                \* the PSF charImageTask put on calexp (0 before)
    result,             \* notebook global result: the task it came from and
                        \* the catalog it holds
    sources,            \* notebook global sources
    ran,                \* history: the tasks run and the catalog each was given
    \* ---- names of the TAP notebook
    stmt,               \* the place of the next statement in Statements
    namespace,          \* the global names assigned so far
    name_error          \* the name whose read raised NameError ("" if none)

tapVars == <<pc, failed, query, results, results1, object_type_histogram,
             async_results, retrieved_results, job, retrieved_job, catalog,
             jobs, calls>>

sortVars == <<spc, key_arg, df_a, df_b, out_a, out_b>>

cutVars == <<cpc, radec, cutoutSideLength, bbox, patch, cutout_shape>>

loopVars == <<lpc, refs, Nrefs, idx, lightcurve, ngets>>

phaseVars == <<ppc, mjd_days, best_period, mjd_norm, phase>>

rgbVars == <<rpc, image, bgr, scale, rgb>>

previewVars == <<vpc, collection_known, calexps, datasetRefs, vi, printed>>

butlerVars == <<bpc, repository, repository0, writeable, requests, calexp, bkgd>>

schemaVars == <<hpc, schema_names, name_i, dp01_schema_name, scanned, raised>>

detectVars == <<dpc, schema, constructed, tab, psf, result, sources, ran>>

namesVars == <<stmt, namespace, name_error>>

vars == <<tapVars, sortVars, cutVars, loopVars, phaseVars, rgbVars, previewVars, butlerVars, schemaVars, detectVars, namesVars>>

\* what each part of the model leaves alone
notTap == <<sortVars, cutVars, loopVars, phaseVars, rgbVars, previewVars, butlerVars, schemaVars, detectVars, namesVars>>
notSort == <<tapVars, cutVars, loopVars, phaseVars, rgbVars, previewVars, butlerVars, schemaVars, detectVars, namesVars>>
notCut == <<tapVars, sortVars, loopVars, phaseVars, rgbVars, previewVars, butlerVars, schemaVars, detectVars, namesVars>>
notLoop == <<tapVars, sortVars, cutVars, phaseVars, rgbVars, previewVars, butlerVars, schemaVars, detectVars, namesVars>>
notPhase == <<tapVars, sortVars, cutVars, loopVars, rgbVars, previewVars, butlerVars, schemaVars, detectVars, namesVars>>
notRGB == <<tapVars, sortVars, cutVars, loopVars, phaseVars, previewVars, butlerVars, schemaVars, detectVars, namesVars>>
notPreview == <<tapVars, sortVars, cutVars, loopVars, phaseVars, rgbVars, butlerVars, schemaVars, detectVars, namesVars>>
notButler == <<tapVars, sortVars, cutVars, loopVars, phaseVars, rgbVars, previewVars, schemaVars, detectVars, namesVars>>
notSchema == <<tapVars, sortVars, cutVars, loopVars, phaseVars, rgbVars, previewVars, butlerVars, detectVars, namesVars>>
notDetect == <<tapVars, sortVars, cutVars, loopVars, phaseVars, rgbVars, previewVars, butlerVars, schemaVars, namesVars>>
notNames == <<tapVars, sortVars, cutVars, loopVars, phaseVars, rgbVars, previewVars, butlerVars, schemaVars, detectVars>>

(***************************************************************************)
(* Helpers                                                                 *)
(***************************************************************************)
Min(a, b) == IF a <= b THEN a ELSE b

\* all orderings of the sequence s (as sequences)
Reorderings(s) ==
    {[i \in 1..Len(s) |-> s[p[i]]] : p \in Permutations(1..Len(s))}

\* all sequences enumerating the finite set S without repetition
Orderings(S) ==
    {s \in [1..Cardinality(S) -> S] : \A i, j \in 1..Cardinality(S) : i # j => s[i] # s[j]}

Prefix(s, n) == SubSeq(s, 1, Min(n, Len(s)))

(***************************************************************************)
(* pandas                                                                  *)
(***************************************************************************)
\* TAPResults.to_table().to_pandas(): the rows in the order returned, with
\* the default index 0..n-1
ToPandas(t) ==
    [i \in 1..Len(t) |->
        [c \in DOMAIN t[i] \cup {"index"} |-> IF c = "index" THEN i - 1 ELSE t[i][c]]]

HasColumn(df, col) == \A i \in 1..Len(df) : col \in DOMAIN df[i]

\* df.sort_values(col): the rows, each with its index label, in ascending
\* order of col; the default sort is not stable, so rows with equal keys come
\* out in any order.  A column the frame does not have is a KeyError: no result.
sort_values(df, col) ==
    IF ~HasColumn(df, col) THEN {}
    ELSE {s \in Reorderings(df) :
            \A i, j \in 1..Len(s) : i < j => s[i][col] <= s[j][col]}

\* df.set_index(np.array(range(len(df))), inplace=True)
set_index(df) == [i \in 1..Len(df) |-> [df[i] EXCEPT !.index = i - 1]]

\* a plausible slip: sorting by the sort_key argument
sort_dataframe_by_key(df, sort_key) ==
    {set_index(s) : s \in sort_values(df, sort_key)}

\* def sort_dataframe(df, sort_key='objectid'): the possible return values
sort_dataframe(df, sort_key) ==
    {set_index(s) : s \in sort_values(df, "objectId")}

\* pandas.testing.assert_frame_equal(sort_dataframe(a), sort_dataframe(b)):
\* the outcomes (TRUE = passes) over the orders the two sorts can produce; an
\* exception in either sort_dataframe fails the statement as well
assert_frame_equal_sorted(a, b) ==
    IF sort_dataframe(a, "objectid") = {} \/ sort_dataframe(b, "objectid") = {}
    THEN {FALSE}
    ELSE {x = y : x \in sort_dataframe(a, "objectid"), y \in sort_dataframe(b, "objectid")}

(***************************************************************************)
(* The TAP service (external): what a query returns                        *)
(***************************************************************************)
\* mag_r values: two that pass the cut mag_r < 24 and one that does not
Mags == {MagLimit - 2, MagLimit - 1, MagLimit}
Urls == 1..MaxJobs

\* the ADQL queries the notebook builds: what they select, their TOP (0: none)
\* and whether they ORDER BY mag_r DESC
query_top     == [select |-> "object", top |-> max_rec, ordered |-> TRUE]
query_maxrec  == [select |-> "object", top |-> 0, ordered |-> TRUE]
query_cone    == [select |-> "cone", top |-> 0, ordered |-> FALSE]
query_join    == [select |-> "join", top |-> 0, ordered |-> FALSE]
query_histogram == [select |-> "histogram", top |-> 0, ordered |-> FALSE]
NoQuery       == [select |-> "none", top |-> 0, ordered |-> FALSE]

Row(r) == [objectId |-> r.objectId, mag_r |-> r.mag_r]

\* the rows a query matches in the catalog cat
Matching(q, cat) ==
    IF q.select = "object" THEN {Row(r) : r \in {x \in cat : x.mag_r < MagLimit}}
    ELSE IF q.select = "cone" THEN {Row(r) : r \in cat}
    ELSE IF q.select = "join" THEN {Row(r) : r \in {x \in cat : x.match}}
    ELSE IF q.select = "histogram"
         THEN {[truth_type |-> 1, count |-> Cardinality({x \in cat : x.match})]}
    ELSE {}

\* the row limit of a request: TOP n in the query, maxrec=n in the call (0: none)
Limit(q, maxrec) ==
    IF q.top > 0 /\ maxrec > 0 THEN Min(q.top, maxrec)
    ELSE IF q.top > 0 THEN q.top
    ELSE IF maxrec > 0 THEN maxrec
    ELSE NumObjects + 1

\* the tables the service may answer with: the matching rows, in ORDER BY
\* order when the query has one (rows that tie in any order) and in any order
\* otherwise, cut to the row limit
SearchResults(q, maxrec, cat) ==
    LET rows == Matching(q, cat)
        full == IF q.ordered
                THEN {s \in Orderings(rows) :
                        \A i, j \in 1..Len(s) : i < j => s[i].mag_r >= s[j].mag_r}
                ELSE Orderings(rows)
    IN  {Prefix(s, Limit(q, maxrec)) : s \in full}

\* the row count the notebook hard-codes for a query of section 2.2 / 2.3
\* (15670, 14424): the count of that query on the catalog
ExpectedRows(q, cat) == Cardinality(Matching(q, cat))

NoJob == [phase |-> "NONE", query |-> NoQuery, result |-> <<>>]

FreeUrls == {u \in Urls : jobs[u].phase = "NONE"}

\* the lowest free job URL
NewUrl == CHOOSE u \in FreeUrls : \A v \in FreeUrls : u <= v

(***************************************************************************)
(* The TAP notebook, cell by cell                                          *)
(***************************************************************************)
\* an uncaught exception in cell c stops the run
Raise(c) == pc' = "error" /\ failed' = c

Goto(c) == pc' = c /\ failed' = failed

\* the sort_dataframe harness, not in use
IdleSort ==
    /\ spc = "idle" /\ key_arg = "" /\ df_a = <<>> /\ df_b = <<>>
    /\ out_a = <<>> /\ out_b = <<>>

\* cutout_coadd, not in use
IdleCut ==
    /\ cpc = "idle" /\ radec = <<0, 0>> /\ cutoutSideLength = 0
    /\ bbox = <<>> /\ patch = <<>> /\ cutout_shape = <<>>

\* the light-curve loop, not in use
IdleLoop ==
    /\ lpc = "idle" /\ refs = <<>> /\ Nrefs = 0 /\ idx = 0
    /\ lightcurve = <<>> /\ ngets = 0

\* phase folding, not in use
IdlePhase ==
    /\ ppc = "idle" /\ mjd_days = <<>> /\ best_period = 0
    /\ mjd_norm = <<>> /\ phase = <<>>

\* createRGB, not in use
IdleRGB ==
    /\ rpc = "idle" /\ image = <<>> /\ bgr = <<>> /\ scale = "None" /\ rgb = <<>>

\* the preview cell, not in use
IdlePreview ==
    /\ vpc = "idle" /\ collection_known = TRUE /\ calexps = {}
    /\ datasetRefs = <<>> /\ vi = 0 /\ printed = <<>>

\* the Butler session, not in use
IdleButler ==
    /\ bpc = "idle" /\ repository = <<>> /\ repository0 = <<>>
    /\ writeable = FALSE /\ requests = <<>> /\ calexp = <<>> /\ bkgd = <<>>

\* the schema-discovery cell, not in use
IdleSchema ==
    /\ hpc = "idle" /\ schema_names = <<>> /\ name_i = 0
    /\ dp01_schema_name = <<>> /\ scanned = 0 /\ raised = ""

\* the source-detection cells, not in use
IdleDetect ==
    /\ dpc = "idle" /\ schema = {} /\ constructed = <<>> /\ tab = <<>>
    /\ psf = 0 /\ result = <<>> /\ sources = <<>> /\ ran = <<>>

\* the notebook's names, not in use
IdleNames ==
    /\ stmt = 0 /\ namespace = {} /\ name_error = ""

InitTap ==
    /\ IdleSort /\ IdleCut /\ IdleLoop /\ IdlePhase /\ IdleRGB
    /\ IdleButler /\ IdlePreview /\ IdleSchema /\ IdleDetect /\ IdleNames
    /\ pc = "top_query"
    /\ failed = ""
    /\ query = NoQuery
    /\ results = <<>>
    /\ results1 = <<>>
    /\ object_type_histogram = <<>>
    /\ async_results = <<>>
    /\ retrieved_results = <<>>
    /\ job = 0
    /\ retrieved_job = 0
    /\ \E m \in [1..NumObjects -> Mags], g \in [1..NumObjects -> BOOLEAN] :
          catalog = {[objectId |-> i, mag_r |-> m[i], match |-> g[i]] : i \in 1..NumObjects}
    \* the service may already hold a job run earlier (e.g. from the Portal)
    /\ \/ jobs = [u \in Urls |-> NoJob]
       \/ \E r \in SearchResults(query_histogram, 0, catalog) :
             jobs = [u \in Urls |-> IF u = 1
                                    THEN [phase |-> "COMPLETED", query |-> query_histogram, result |-> r]
                                    ELSE NoJob]
    /\ calls = <<>>

\* section 2.1: max_rec = 5; query = "SELECT TOP " + str(max_rec) + ...
Cell_top_query ==
    /\ pc = "top_query"
    /\ query' = query_top
    /\ Goto("top_search")
    /\ UNCHANGED notTap
    /\ UNCHANGED <<results, results1, object_type_histogram, async_results,
                   retrieved_results, job, retrieved_job, catalog, jobs, calls>>

\* results = service.search(query); assert len(results) == max_rec
Cell_top_search ==
    /\ pc = "top_search"
    /\ \E r \in SearchResults(query, 0, catalog) :
          /\ results' = r
          /\ IF Len(r) = max_rec THEN Goto("maxrec_search") ELSE Raise("top_search")
    /\ UNCHANGED notTap
    /\ UNCHANGED <<query, results1, object_type_histogram, async_results,
                   retrieved_results, job, retrieved_job, catalog, jobs, calls>>

\* query = <the same without TOP>; results1 = service.search(query, maxrec=max_rec)
\* assert len(results1) == max_rec
Cell_maxrec_search ==
    /\ pc = "maxrec_search"
    /\ query' = query_maxrec
    /\ \E r \in SearchResults(query_maxrec, max_rec, catalog) :
          /\ results1' = r
          /\ IF Len(r) = max_rec THEN Goto("compare") ELSE Raise("maxrec_search")
    /\ UNCHANGED notTap
    /\ UNCHANGED <<results, object_type_histogram, async_results,
                   retrieved_results, job, retrieved_job, catalog, jobs, calls>>

\* assert_frame_equal(sort_dataframe(results.to_table().to_pandas()),
\*                    sort_dataframe(results1.to_table().to_pandas()))
Cell_compare ==
    /\ pc = "compare"
    /\ \E ok \in assert_frame_equal_sorted(ToPandas(results), ToPandas(results1)) :
          IF ok THEN Goto("cone_query") ELSE Raise("compare")
    /\ UNCHANGED notTap
    /\ UNCHANGED <<query, results, results1, object_type_histogram, async_results,
                   retrieved_results, job, retrieved_job, catalog, jobs, calls>>

\* section 2.2: coord, radius; query = "SELECT ra, dec, ... CONTAINS(...) = 1"
Cell_cone_query ==
    /\ pc = "cone_query"
    /\ query' = query_cone
    /\ Goto("cone_search")
    /\ UNCHANGED notTap
    /\ UNCHANGED <<results, results1, object_type_histogram, async_results,
                   retrieved_results, job, retrieved_job, catalog, jobs, calls>>

\* results = service.search(query).to_table().to_pandas()
\* assert len(results) == 15670
Cell_cone_search ==
    /\ pc = "cone_search"
    /\ \E r \in SearchResults(query, 0, catalog) :
          /\ results' = ToPandas(r)
          /\ IF Len(r) = ExpectedRows(query_cone, catalog)
             THEN Goto("join_query") ELSE Raise("cone_search")
    /\ UNCHANGED notTap
    /\ UNCHANGED <<query, results1, object_type_histogram, async_results,
                   retrieved_results, job, retrieved_job, catalog, jobs, calls>>

\* section 2.3: query = "SELECT obj.objectId, ... JOIN ... truth_match ..."
Cell_join_query ==
    /\ pc = "join_query"
    /\ query' = query_join
    /\ Goto("join_search")
    /\ UNCHANGED notTap
    /\ UNCHANGED <<results, results1, object_type_histogram, async_results,
                   retrieved_results, job, retrieved_job, catalog, jobs, calls>>

\* results = service.search(query).to_table().to_pandas()
\* assert len(results) == 14424
Cell_join_search ==
    /\ pc = "join_search"
    /\ \E r \in SearchResults(query, 0, catalog) :
          /\ results' = ToPandas(r)
          /\ IF Len(r) = ExpectedRows(query_join, catalog)
             THEN Goto("histogram") ELSE Raise("join_search")
    /\ UNCHANGED notTap
    /\ UNCHANGED <<query, results1, object_type_histogram, async_results,
                   retrieved_results, job, retrieved_job, catalog, jobs, calls>>

\* a plausible slip: the histogram query stored in `query`
Cell_histogram_in_query ==
    /\ pc = "histogram"
    /\ query' = query_histogram
    /\ \E r \in SearchResults(query_histogram, 0, catalog) :
          object_type_histogram' = ToPandas(r)
    /\ Goto("submit")
    /\ UNCHANGED notTap
    /\ UNCHANGED <<results, results1, async_results,
                   retrieved_results, job, retrieved_job, catalog, jobs, calls>>

\* section 2.4: query_histogram = "SELECT truth_type, count(truth_type) ..."
\* object_type_histogram = service.search(query_histogram).to_table().to_pandas()
\* (the cells from here to section 4 read `results` and assign neither
\* `query` nor `results`)
Cell_histogram ==
    /\ pc = "histogram"
    /\ \E r \in SearchResults(query_histogram, 0, catalog) :
          object_type_histogram' = ToPandas(r)
    /\ Goto("submit")
    /\ UNCHANGED notTap
    /\ UNCHANGED <<query, results, results1, async_results,
                   retrieved_results, job, retrieved_job, catalog, jobs, calls>>

(***************************************************************************)
(* Section 4: the asynchronous job                                         *)
(***************************************************************************)
Phase(u) == jobs[u].phase

Called(op) == Append(calls, [op |-> op, phase |-> Phase(job)])

\* job = service.submit_job(query): the job is created, not started
Cell_submit ==
    /\ pc = "submit"
    /\ FreeUrls # {}
    /\ job' = NewUrl
    /\ jobs' = [jobs EXCEPT ![NewUrl] = [phase |-> "PENDING", query |-> query, result |-> <<>>]]
    /\ calls' = Append(calls, [op |-> "submit_job", phase |-> "PENDING"])
    /\ Goto("run")
    /\ UNCHANGED notTap
    /\ UNCHANGED <<query, results, results1, object_type_histogram, async_results,
                   retrieved_results, retrieved_job, catalog>>

\* job.run()
Cell_run ==
    /\ pc = "run"
    /\ calls' = Called("run")
    /\ jobs' = [jobs EXCEPT ![job].phase = "QUEUED"]
    /\ Goto("wait")
    /\ UNCHANGED notTap
    /\ UNCHANGED <<query, results, results1, object_type_histogram, async_results,
                   retrieved_results, job, retrieved_job, catalog>>

\* the service starts a queued job
ServerExecute ==
    /\ \E u \in Urls :
          /\ Phase(u) = "QUEUED"
          /\ jobs' = [jobs EXCEPT ![u].phase = "EXECUTING"]
    /\ UNCHANGED notTap
    /\ UNCHANGED <<pc, failed, query, results, results1, object_type_histogram,
                   async_results, retrieved_results, job, retrieved_job, catalog, calls>>

\* the service finishes a job and stores its result
ServerComplete ==
    /\ \E u \in Urls :
          /\ Phase(u) = "EXECUTING"
          /\ \E r \in SearchResults(jobs[u].query, 0, catalog) :
                jobs' = [jobs EXCEPT ![u].phase = "COMPLETED", ![u].result = r]
    /\ UNCHANGED notTap
    /\ UNCHANGED <<pc, failed, query, results, results1, object_type_histogram,
                   async_results, retrieved_results, job, retrieved_job, catalog, calls>>

\* the query fails on the service
ServerError ==
    /\ \E u \in Urls :
          /\ Phase(u) = "EXECUTING"
          /\ jobs' = [jobs EXCEPT ![u].phase = "ERROR"]
    /\ UNCHANGED notTap
    /\ UNCHANGED <<pc, failed, query, results, results1, object_type_histogram,
                   async_results, retrieved_results, job, retrieved_job, catalog, calls>>

\* the service aborts a job
ServerAbort ==
    /\ \E u \in Urls :
          /\ Phase(u) \in {"QUEUED", "EXECUTING"}
          /\ jobs' = [jobs EXCEPT ![u].phase = "ABORTED"]
    /\ UNCHANGED notTap
    /\ UNCHANGED <<pc, failed, query, results, results1, object_type_histogram,
                   async_results, retrieved_results, job, retrieved_job, catalog, calls>>

\* job.wait(phases=['COMPLETED', 'ERROR']): returns once the job is in one of
\* the phases, raises when the job is no longer active, blocks otherwise
Cell_wait ==
    /\ pc = "wait"
    /\ Phase(job) \in {"COMPLETED", "ERROR", "ABORTED"}
    /\ calls' = Called("wait")
    /\ IF Phase(job) \in {"COMPLETED", "ERROR"} THEN Goto("raise_if_error") ELSE Raise("wait")
    /\ UNCHANGED notTap
    /\ UNCHANGED <<query, results, results1, object_type_histogram, async_results,
                   retrieved_results, job, retrieved_job, catalog, jobs>>

\* a plausible slip: the check for a failed job left out
Cell_raise_if_error_skipped ==
    /\ pc = "raise_if_error"
    /\ calls' = Called("raise_if_error")
    /\ Goto("fetch")
    /\ UNCHANGED notTap
    /\ UNCHANGED <<query, results, results1, object_type_histogram, async_results,
                   retrieved_results, job, retrieved_job, catalog, jobs>>

\* job.raise_if_error()
Cell_raise_if_error ==
    /\ pc = "raise_if_error"
    /\ calls' = Called("raise_if_error")
    /\ IF Phase(job) \in {"ERROR", "ABORTED"} THEN Raise("raise_if_error") ELSE Goto("fetch")
    /\ UNCHANGED notTap
    /\ UNCHANGED <<query, results, results1, object_type_histogram, async_results,
                   retrieved_results, job, retrieved_job, catalog, jobs>>

\* job.fetch_result() on the job at URL u: its stored result; an exception
\* (no result) unless the job completed
fetch_result(u) == IF Phase(u) = "COMPLETED" THEN {jobs[u].result} ELSE {}

\* async_results = job.fetch_result()
\* assert len(async_results) == 14424
\* assert_frame_equal(sort_dataframe(results),
\*                    sort_dataframe(async_results.to_table().to_pandas()))
Cell_fetch ==
    /\ pc = "fetch"
    /\ calls' = Called("fetch_result")
    /\ IF fetch_result(job) = {}
       THEN Raise("fetch") /\ async_results' = async_results
       ELSE \E r \in fetch_result(job) :
              /\ async_results' = r
              /\ \E ok \in assert_frame_equal_sorted(results, ToPandas(r)) :
                    IF Len(r) = ExpectedRows(query_join, catalog) /\ ok
                    THEN Goto("retrieve") ELSE Raise("fetch")
    /\ UNCHANGED notTap
    /\ UNCHANGED <<query, results, results1, object_type_histogram,
                   retrieved_results, job, retrieved_job, catalog, jobs>>

\* retrieve_query(url): a handle on the job at that URL
retrieve_query(url) == url

\* a plausible slip: section 4.3's job.delete() run before section 4.2
Cell_retrieve_after_delete ==
    /\ pc = "retrieve"
    /\ jobs' = [jobs EXCEPT ![job] = NoJob]
    /\ retrieved_job' = retrieve_query(job)
    /\ Raise("retrieve")
    /\ UNCHANGED notTap
    /\ UNCHANGED <<query, results, results1, object_type_histogram, async_results,
                   retrieved_results, job, catalog, calls>>

\* retrieved_job = retrieve_query(job.url)
\* retrieved_results = retrieved_job.fetch_result()
\* assert len(retrieved_results) == 14424
\* assert_frame_equal(sort_dataframe(retrieved_results.to_table().to_pandas()),
\*                    sort_dataframe(async_results.to_table().to_pandas()))
Cell_retrieve ==
    /\ pc = "retrieve"
    /\ retrieved_job' = retrieve_query(job)
    /\ IF fetch_result(retrieve_query(job)) = {}
       THEN Raise("retrieve") /\ retrieved_results' = retrieved_results
       ELSE \E r \in fetch_result(retrieve_query(job)) :
              /\ retrieved_results' = r
              /\ \E ok \in assert_frame_equal_sorted(ToPandas(r), ToPandas(async_results)) :
                    IF Len(r) = ExpectedRows(query_join, catalog) /\ ok
                    THEN Goto("delete") ELSE Raise("retrieve")
    /\ UNCHANGED notTap
    /\ UNCHANGED <<query, results, results1, object_type_histogram, async_results,
                   job, catalog, jobs, calls>>

\* section 4.3: job.delete()
Cell_delete ==
    /\ pc = "delete"
    /\ jobs' = [jobs EXCEPT ![job] = NoJob]
    /\ Goto("done")
    /\ UNCHANGED notTap
    /\ UNCHANGED <<query, results, results1, object_type_histogram, async_results,
                   retrieved_results, job, retrieved_job, catalog, calls>>

NextTap ==
    \/ Cell_top_query
    \/ Cell_top_search
    \/ Cell_maxrec_search
    \/ Cell_compare
    \/ Cell_cone_query
    \/ Cell_cone_search
    \/ Cell_join_query
    \/ Cell_join_search
    \/ Cell_histogram
    \/ Cell_submit
    \/ Cell_run
    \/ ServerExecute
    \/ ServerComplete
    \/ ServerError
    \/ ServerAbort
    \/ Cell_wait
    \/ Cell_raise_if_error
    \/ Cell_fetch
    \/ Cell_retrieve
    \/ Cell_delete

SpecTap == InitTap /\ [][NextTap]_vars

(***************************************************************************)
(* Claims on the TAP notebook (SpecTap)                                    *)
(***************************************************************************)
JobCallOrder == <<"submit_job", "run", "wait", "raise_if_error", "fetch_result">>

\* C1: the calls on the asynchronous job are made in the order submit_job,
\* run, wait, raise_if_error, fetch_result; fetch_result is executed only
\* while the job's phase is COMPLETED, and the run never gets to the
\* fetch_result cell with a job in phase ERROR.
C1_JobCallOrder ==
    /\ Len(calls) <= Len(JobCallOrder)
    /\ \A i \in 1..Len(calls) :
          /\ calls[i].op = JobCallOrder[i]
          /\ calls[i].op = "fetch_result" => calls[i].phase = "COMPLETED"
    /\ pc = "fetch" => Phase(job) = "COMPLETED"
    /\ (Len(calls) >= 4 /\ calls[4].phase = "ERROR") => failed = "raise_if_error"

\* C1 witness: all five calls were made and fetch_result ran on a completed job
C1_Witness ==
    /\ pc = "retrieve"
    /\ Len(calls) = 5
    /\ calls[5] = [op |-> "fetch_result", phase |-> "COMPLETED"]

\* the rows of a frame or table, without index labels and order
RowSet(t) == {[c \in DOMAIN t[i] \ {"index"} |-> t[i][c]] : i \in 1..Len(t)}

FetchCellPassed == pc \in {"retrieve", "delete", "done"} \/ failed = "retrieve"

\* C2: the rows the asynchronous job returns for the join query of section
\* 2.3 are the rows the synchronous search of that query returned, in whatever
\* order each came back: the fetch cell's assertions never fail, and after
\* it the two frames are equal once passed through sort_dataframe.
C2_AsyncEqualsSync ==
    /\ failed # "fetch"
    /\ FetchCellPassed =>
          /\ RowSet(async_results) = RowSet(results)
          /\ assert_frame_equal_sorted(results, ToPandas(async_results)) = {TRUE}

\* C2 witness: the job returned two or more rows in another order than the
\* synchronous search did
C2_Witness ==
    /\ pc = "retrieve"
    /\ Len(async_results) >= 2
    /\ ToPandas(async_results) # results

\* the rows matching the query of section 2.1
TopRows == Matching(query_top, catalog)

\* C3: SELECT TOP n and maxrec=n are identical: each returns exactly n rows
\* when at least n rows match, and the two results are equal after
\* sort_dataframe (none of the three assertions of section 2.1 fails).
C3_TopEqualsMaxrec ==
    /\ Cardinality(TopRows) >= max_rec => failed \notin {"top_search", "maxrec_search"}
    /\ pc = "compare" => Len(results) = max_rec /\ Len(results1) = max_rec
    /\ failed # "compare"

RetrieveCellPassed == pc \in {"delete", "done"}

IdleTap ==
    /\ pc = "idle" /\ failed = "" /\ query = NoQuery /\ results = <<>>
    /\ results1 = <<>> /\ object_type_histogram = <<>> /\ async_results = <<>>
    /\ retrieved_results = <<>> /\ job = 0 /\ retrieved_job = 0 /\ catalog = {}
    /\ jobs = [u \in Urls |-> NoJob] /\ calls = <<>>

SortRows == {[objectId |-> i, mag_r |-> m] : i \in {1, 2, 3}, m \in {22, 23}}

\* the tables of up to MaxRows rows
Tables == UNION {[1..n -> SortRows] : n \in 0..MaxRows}

\* the values passed as sort_key: the default, and two column names
SortKeys == {"objectid", "objectId", "mag_r"}

Untabled(df) == [i \in 1..Len(df) |-> [objectId |-> df[i].objectId, mag_r |-> df[i].mag_r]]

InitSort ==
    /\ IdleTap /\ IdleCut /\ IdleLoop /\ IdlePhase /\ IdleRGB
    /\ IdleButler /\ IdlePreview /\ IdleSchema /\ IdleDetect /\ IdleNames
    /\ spc = "input"
    /\ key_arg \in SortKeys
    /\ \E t \in Tables : df_a = ToPandas(t)
    /\ df_b = df_a
    /\ out_a = <<>>
    /\ out_b = <<>>

\* the same rows come back from another request, in any order
Reorder ==
    /\ spc = "input"
    /\ \E t \in Reorderings(Untabled(df_a)) : df_b' = ToPandas(t)
    /\ spc' = "sort_a"
    /\ UNCHANGED notSort
    /\ UNCHANGED <<key_arg, df_a, out_a, out_b>>

\* out_a = sort_dataframe(df_a, sort_key)
SortA ==
    /\ spc = "sort_a"
    /\ IF sort_dataframe(df_a, key_arg) = {}
       THEN spc' = "error" /\ out_a' = out_a
       ELSE spc' = "sort_b" /\ out_a' \in sort_dataframe(df_a, key_arg)
    /\ UNCHANGED notSort
    /\ UNCHANGED <<key_arg, df_a, df_b, out_b>>

\* out_b = sort_dataframe(df_b, sort_key)
SortB ==
    /\ spc = "sort_b"
    /\ IF sort_dataframe(df_b, key_arg) = {}
       THEN spc' = "error" /\ out_b' = out_b
       ELSE spc' = "done" /\ out_b' \in sort_dataframe(df_b, key_arg)
    /\ UNCHANGED notSort
    /\ UNCHANGED <<key_arg, df_a, df_b, out_a>>

NextSort ==
    \/ Reorder
    \/ SortA
    \/ SortB

SpecSort == InitSort /\ [][NextSort]_vars

DistinctIds(df) == \A i, j \in 1..Len(df) : i # j => df[i].objectId # df[j].objectId

\* out holds the rows of df in ascending objectId order, indexed 0..len(df)-1
SortedFrameOf(out, df) ==
    /\ Len(out) = Len(df)
    /\ \A i \in 1..Len(out) : out[i].index = i - 1
    /\ \A i, j \in 1..Len(out) : i < j => out[i].objectId <= out[j].objectId
    /\ \E p \in Permutations(1..Len(df)) : Untabled(out) = [i \in 1..Len(df) |-> Untabled(df)[p[i]]]

\* C4: whatever sort_key is passed, sort_dataframe returns (without raising)
\* the rows of df in ascending objectId order with index 0..len(df)-1, so
\* two frames holding the same rows, with distinct objectId values, in
\* different orders give equal outputs.
C4_SortDataframe ==
    /\ spc # "error"
    /\ spc \in {"sort_b", "done"} => SortedFrameOf(out_a, df_a)
    /\ spc = "done" => SortedFrameOf(out_b, df_b)
    /\ (spc = "done" /\ DistinctIds(df_a)) => out_a = out_b

\* C4 witness: two frames of MaxRows rows with distinct objectIds, in
\* different orders, neither in objectId order, sorted with sort_key='mag_r'
C4_Witness ==
    /\ spc = "done"
    /\ key_arg = "mag_r"
    /\ Len(df_a) = MaxRows
    /\ DistinctIds(df_a)
    /\ df_a # df_b
    /\ out_a # df_a
    /\ out_b # df_b
    /\ \E i \in 1..Len(df_a) : out_a[i].mag_r > out_a[Len(df_a)].mag_r

(***************************************************************************)
(* cutout_coadd (SpecCutout)                                               *)
(***************************************************************************)
\* the tract's bounding box is 0..TractSize-1 in x and in y
TractSize == NumPatches * PatchInner

\* the places (ra, dec) can fall in the tract, in half pixels: pixel k covers
\* the positions 2k-1 and 2k
SkyPositions == (0 - 1)..(2 * TractSize - 2)

\* geom.PointI(tractInfo.getWcs().skyToPixel(radec)), one axis: the float
\* pixel position h/2 rounded to the nearest integer
PointI(h) == (h + 1) \div 2

\* tractInfo.findPatch(radec), one axis: the patch whose inner region holds
\* the pixel
findPatch(h) == PointI(h) \div PatchInner

\* the image of a patch covers its inner region grown by the border and
\* clipped to the tract, one axis: [min, max]
PatchImage(p) ==
    [min |-> IF p * PatchInner - PatchBorder < 0 THEN 0 ELSE p * PatchInner - PatchBorder,
     max |-> Min((p + 1) * PatchInner - 1 + PatchBorder, TractSize - 1)]

\* a plausible slip: half the side rounded up
HalfSide_up(side) == (side + 1) \div 2

\* cutoutSize // 2, one axis
HalfSide(side) == side \div 2

\* geom.BoxI(xy - cutoutSize // 2, cutoutSize)
BoxI(h, side) ==
    [min |-> <<PointI(h[1]) - HalfSide(side), PointI(h[2]) - HalfSide(side)>>,
     extent |-> <<side, side>>]

BoxMax(b) == <<b.min[1] + b.extent[1] - 1, b.min[2] + b.extent[2] - 1>>

\* whether the box b lies in the image of patch p
ImageContains(p, b) ==
    \A a \in 1..2 :
        /\ PatchImage(p[a]).min <= b.min[a]
        /\ BoxMax(b)[a] <= PatchImage(p[a]).max

InitCutout ==
    /\ IdleTap /\ IdleSort /\ IdleLoop /\ IdlePhase /\ IdleRGB
    /\ IdleButler /\ IdlePreview /\ IdleSchema /\ IdleDetect /\ IdleNames
    /\ cpc = "call"
    /\ radec \in SkyPositions \X SkyPositions
    /\ cutoutSideLength \in 1..MaxSide
    /\ bbox = <<>>
    /\ patch = <<>>
    /\ cutout_shape = <<>>

\* cutout_image = cutout_coadd(butler, ra, dec, datasetType='deepCoadd',
\*                             cutoutSideLength=...)
\* butler.get(datasetType, parameters={'bbox': bbox}, dataId=coaddId) returns
\* the pixels of bbox, and raises when bbox is not inside the patch's image
cutout_coadd ==
    /\ cpc = "call"
    /\ patch' = <<findPatch(radec[1]), findPatch(radec[2])>>
    /\ bbox' = BoxI(radec, cutoutSideLength)
    /\ IF ImageContains(patch', bbox')
       THEN cpc' = "returned" /\ cutout_shape' = <<bbox'.extent[2], bbox'.extent[1]>>
       ELSE cpc' = "error" /\ cutout_shape' = cutout_shape
    /\ UNCHANGED notCut
    /\ UNCHANGED <<radec, cutoutSideLength>>

\* print("The size of the cutout is: ", cutout_image.image.array.shape)
print_shape ==
    /\ cpc = "returned"
    /\ cpc' = "printed"
    /\ UNCHANGED notCut
    /\ UNCHANGED <<radec, cutoutSideLength, bbox, patch, cutout_shape>>

NextCutout ==
    \/ cutout_coadd
    \/ print_shape

SpecCutout == InitCutout /\ [][NextCutout]_vars

Called_cutout == cpc \in {"returned", "printed", "error"}

\* the pixel that contains the position h (one axis): pixel k covers 2k-1, 2k
PixelOf(h) == CHOOSE k \in 0..(TractSize - 1) : 2 * k - 1 <= h /\ h <= 2 * k

\* C6: the box cutout_coadd requests is cutoutSideLength pixels wide and
\* high and its minimum corner is the tract pixel of (ra, dec) minus
\* floor(cutoutSideLength / 2) in each axis; for an odd cutoutSideLength the
\* pixel of (ra, dec) is the centre pixel, with as many pixels of the box
\* before it as after it.
C6_CutoutBox ==
    Called_cutout =>
        /\ bbox.extent = <<cutoutSideLength, cutoutSideLength>>
        /\ \A a \in 1..2 :
              /\ \E q \in 0..MaxSide :
                    /\ 2 * q <= cutoutSideLength /\ cutoutSideLength < 2 * q + 2
                    /\ bbox.min[a] = PixelOf(radec[a]) - q
              /\ cutoutSideLength % 2 = 1 =>
                    PixelOf(radec[a]) - bbox.min[a] = BoxMax(bbox)[a] - PixelOf(radec[a])

\* C6 witness: a cutout of odd side, three pixels or more, was returned for a
\* position that is not at a pixel centre
C6_Witness ==
    /\ cpc = "returned"
    /\ cutoutSideLength % 2 = 1
    /\ cutoutSideLength >= 3
    /\ radec[1] % 2 = 1
    /\ bbox.min[1] + 1 = PixelOf(radec[1])

\* C7: for every (ra, dec) in a tract and patch and every cutoutSideLength
\* the requested box lies inside the image of the patch findPatch chose, and
\* the cutout returned has cutoutSideLength x cutoutSideLength pixels.
C7_BoxInsidePatch ==
    Called_cutout =>
        /\ ImageContains(patch, bbox)
        /\ cpc # "error"
        /\ cutout_shape = <<cutoutSideLength, cutoutSideLength>>

(***************************************************************************)
(* The light-curve loop, Option A (SpecLoop)                               *)
(***************************************************************************)
\* separations of a source from the target, in tenths of an arcsecond:
\* below, at and above the limit
Seps == {SepLimit - 1, SepLimit, SepLimit + 1}

\* a src catalog: the separations of its sources, in row order
SrcCatalogs == UNION {[1..n -> Seps] : n \in 0..MaxSrc}

\* np.min(sep.arcsecond), for a catalog with sources
npmin(sep) == CHOOSE m \in {sep[k] : k \in 1..Len(sep)} : \A k \in 1..Len(sep) : m <= sep[k]

\* np.argmin(sep.arcsecond): the first row (from 0) that holds the minimum
npargmin(sep) ==
    (CHOOSE k \in 1..Len(sep) : sep[k] = npmin(sep) /\ \A j \in 1..(k - 1) : sep[j] # npmin(sep)) - 1

\* a plausible slip: the limit taken as inclusive
within_limit_inclusive(sep) == npmin(sep) <= SepLimit

\* np.min(sep.arcsecond) < 1.5
within_limit(sep) == npmin(sep) < SepLimit

InitLoop ==
    /\ IdleTap /\ IdleSort /\ IdleCut /\ IdlePhase /\ IdleRGB
    /\ IdleButler /\ IdlePreview /\ IdleSchema /\ IdleDetect /\ IdleNames
    /\ lpc = "loop"
    /\ refs \in UNION {[1..n -> SrcCatalogs] : n \in 0..MaxRefs}
    /\ Nrefs \in 0..MaxRefs
    /\ idx = 0
    /\ lightcurve = <<>>
    /\ ngets = 0

\* one pass of `for i, d in enumerate(tqdm(refs))` with i <= Nrefs:
\* src = butler.get('src', dataId=did); the separations; the nearest source
\* is appended when it is within the limit.  np.min of an empty catalog
\* raises.
loop_body ==
    /\ lpc = "loop"
    /\ idx < Len(refs)
    /\ idx <= Nrefs
    /\ ngets' = ngets + 1
    /\ LET sep == refs[idx + 1] IN
         IF Len(sep) = 0
         THEN lpc' = "error" /\ UNCHANGED <<idx, lightcurve>>
         ELSE /\ lpc' = lpc
              /\ idx' = idx + 1
              /\ lightcurve' =
                    IF within_limit(sep)
                    THEN Append(lightcurve, [ref |-> idx, sx |-> npargmin(sep),
                                             sep |-> sep[npargmin(sep) + 1]])
                    ELSE lightcurve
    /\ UNCHANGED notLoop
    /\ UNCHANGED <<refs, Nrefs>>

\* one pass of the loop with i > Nrefs: nothing is done
loop_skip ==
    /\ lpc = "loop"
    /\ idx < Len(refs)
    /\ ~(idx <= Nrefs)
    /\ idx' = idx + 1
    /\ UNCHANGED notLoop
    /\ UNCHANGED <<lpc, refs, Nrefs, lightcurve, ngets>>

\* the loop is over: print('Total run-time was: ', ...)
loop_end ==
    /\ lpc = "loop"
    /\ idx = Len(refs)
    /\ lpc' = "done"
    /\ UNCHANGED notLoop
    /\ UNCHANGED <<refs, Nrefs, idx, lightcurve, ngets>>

NextLoop ==
    \/ loop_body
    \/ loop_skip
    \/ loop_end

SpecLoop == InitLoop /\ [][NextLoop]_vars

\* the entries appended for ref k
EntriesOf(k) == {e \in 1..Len(lightcurve) : lightcurve[e].ref = k}

\* the refs whose src catalog was retrieved and searched for the target
Processed == {k \in 0..(idx - 1) : k < ngets}

\* the smallest separation in a catalog, and the rows that have it
Smallest(sep) == CHOOSE m \in Seps :
    /\ \E k \in 1..Len(sep) : sep[k] = m
    /\ \A k \in 1..Len(sep) : sep[k] >= m

\* C8: for every dataset ref the loop processed, exactly one entry was
\* appended when the smallest separation in its catalog is below 1.5 arcsec,
\* holding the row and separation of a source with that smallest separation,
\* and no entry was appended when the smallest separation is 1.5 arcsec or
\* more; entries are in the order of the refs.
C8_NearestSourceAppended ==
    /\ \A k \in Processed :
          LET sep == refs[k + 1] IN
          IF Smallest(sep) < SepLimit
          THEN /\ Cardinality(EntriesOf(k)) = 1
               /\ \A e \in EntriesOf(k) :
                     /\ lightcurve[e].sep = Smallest(sep)
                     /\ sep[lightcurve[e].sx + 1] = Smallest(sep)
          ELSE EntriesOf(k) = {}
    /\ \A e \in 1..Len(lightcurve) : lightcurve[e].ref \in Processed
    /\ \A e, f \in 1..Len(lightcurve) : e < f => lightcurve[e].ref < lightcurve[f].ref

\* C8 witness: the loop ended after appending for a ref whose nearest
\* source, not its first row, is within the limit, and appending nothing for
\* a ref whose nearest source is exactly at the limit
C8_Witness ==
    /\ lpc = "done"
    /\ Len(lightcurve) = 1
    /\ lightcurve[1].sx = 1
    /\ lightcurve[1].sep = SepLimit - 1
    /\ \E k \in Processed : Smallest(refs[k + 1]) = SepLimit

\* C9: with Nrefs = n and at least n refs, the loop retrieves the src
\* catalog of exactly n refs.
C9_RetrievesNrefs ==
    (lpc = "done" /\ Len(refs) >= Nrefs) => ngets = Nrefs

(***************************************************************************)
(* Phase folding (SpecPhase)                                               *)
(*                                                                         *)
(* Times and the period are whole numbers of fifths of a day; a quotient   *)
(* is kept exactly, as <<numerator, denominator>>.                         *)
(***************************************************************************)
\* a plausible slip: the first measurement in the table taken as time zero
first_mjd(t) == t[1]

\* np.min(mjd_days)
min_mjd(t) == CHOOSE m \in {t[k] : k \in 1..Len(t)} : \A k \in 1..Len(t) : m <= t[k]

\* x / best_period
Divide(x, period) == <<x, period>>

\* np.mod(q, 1.0) for a quotient q = <<n, d>>, d > 0: n/d minus its floor
npmod1(q) == <<q[1] % q[2], q[2]>>

InitPhase ==
    /\ IdleTap /\ IdleSort /\ IdleCut /\ IdleLoop /\ IdleRGB
    /\ IdleButler /\ IdlePreview /\ IdleSchema /\ IdleDetect /\ IdleNames
    /\ ppc = "norm"
    /\ mjd_days \in UNION {[1..n -> 0..MaxTime] : n \in 1..MaxObs}
    /\ best_period \in 1..MaxPeriod
    /\ mjd_norm = <<>>
    /\ phase = <<>>

\* mjd_norm = (mjd_days - np.min(mjd_days)) / best_period
normalize ==
    /\ ppc = "norm"
    /\ mjd_norm' = [k \in 1..Len(mjd_days) |->
                      Divide(mjd_days[k] - min_mjd(mjd_days), best_period)]
    /\ ppc' = "fold"
    /\ UNCHANGED notPhase
    /\ UNCHANGED <<mjd_days, best_period, phase>>

\* phase = np.mod(mjd_norm, 1.0)
fold ==
    /\ ppc = "fold"
    /\ phase' = [k \in 1..Len(mjd_norm) |-> npmod1(mjd_norm[k])]
    /\ ppc' = "done"
    /\ UNCHANGED notPhase
    /\ UNCHANGED <<mjd_days, best_period, mjd_norm>>

NextPhase ==
    \/ normalize
    \/ fold

SpecPhase == InitPhase /\ [][NextPhase]_vars

\* the quotient q equals n/d
Equals(q, n, d) == q[1] * d = n * q[2]

\* a measurement no later than any other
Earliest(k) == \A j \in 1..Len(mjd_days) : mjd_days[k] <= mjd_days[j]

\* C10: every measurement is placed at phase ((mjd - min mjd) / best_period)
\* mod 1, a value in [0, 1) that differs from the elapsed periods by a whole
\* number of periods; the earliest measurement has phase 0; measurements at
\* 0, 1.0 and 2.0 days folded with a period of 0.8 days get phases 0, 0.25
\* and 0.5.
C10_PhaseFolding ==
    ppc = "done" =>
        /\ Len(phase) = Len(mjd_days)
        /\ \A k \in 1..Len(phase) :
              /\ phase[k][2] > 0
              /\ 0 <= phase[k][1] /\ phase[k][1] < phase[k][2]
              /\ \E e \in 1..Len(mjd_days), c \in 0..MaxTime :
                    /\ Earliest(e)
                    /\ (mjd_days[k] - mjd_days[e]) * phase[k][2]
                          = (c * phase[k][2] + phase[k][1]) * best_period
              /\ Earliest(k) => phase[k][1] = 0
        /\ (mjd_days = <<0, 5, 10>> /\ best_period = 4) =>
              /\ Equals(phase[1], 0, 1)
              /\ Equals(phase[2], 1, 4)
              /\ Equals(phase[3], 1, 2)

\* C10 witness: the worked example, 0, 1.0 and 2.0 days with a period of 0.8
\* days, has been folded
C10_Witness ==
    /\ ppc = "done"
    /\ mjd_days = <<0, 5, 10>>
    /\ best_period = 4
    /\ phase = <<<<0, 4>>, <<1, 4>>, <<2, 4>>>>

(***************************************************************************)
(* createRGB (SpecRGB)                                                     *)
(***************************************************************************)
\* filter names
Bands == LET all == <<"g", "r", "i", "z", "y", "u">> IN {all[k] : k \in 1..MaxBands}

\* MultibandExposure.fromExposures(filters, coadds): the filters, each once,
\* in the order given
Images == {f \in UNION {[1..n -> Bands] : n \in 1..MaxBands} :
              \A j, k \in 1..Len(f) : j # k => f[j] # f[k]}

\* the bgr argument: a sequence of filter names
BgrArgs == [1..2 -> Bands] \cup [1..3 -> Bands]

\* a plausible slip: three bands or more
at_least_three_bands(im) == Len(im) >= 3

\* len(image) == 3
only_three_bands(im) == Len(im) = 3

\* if len(image) == 3: bgr = image.filters
bgr_used(im, arg) == IF only_three_bands(im) THEN im ELSE arg

\* image[b]: the band b of the image, a KeyError when it has none
HasBand(im, b) == \E k \in 1..Len(im) : im[k] = b

InitRGB ==
    /\ IdleTap /\ IdleSort /\ IdleCut /\ IdleLoop /\ IdlePhase
    /\ IdleButler /\ IdlePreview /\ IdleSchema /\ IdleDetect /\ IdleNames
    /\ rpc = "call"
    /\ image \in Images
    /\ bgr \in BgrArgs
    /\ scale \in {"None", "list"}
    /\ rgb = <<>>

\* rgb = createRGB(image, bgr=..., scale=...): r_im, g_im, b_im are
\* image[bgr[2]], image[bgr[1]], image[bgr[0]], re-scaled when scale is given
createRGB ==
    /\ rpc = "call"
    /\ LET b == bgr_used(image, bgr) IN
         IF Len(b) >= 3 /\ \A k \in 1..3 : HasBand(image, b[k])
         THEN /\ rpc' = "returned"
              /\ rgb' = [image_r |-> b[3], image_g |-> b[2], image_b |-> b[1],
                         scaled |-> (scale # "None")]
         ELSE /\ rpc' = "error"
              /\ rgb' = rgb
    /\ UNCHANGED notRGB
    /\ UNCHANGED <<image, bgr, scale>>

\* ax.imshow(rgb, origin='lower')
imshow ==
    /\ rpc = "returned"
    /\ rpc' = "shown"
    /\ UNCHANGED notRGB
    /\ UNCHANGED <<image, bgr, scale, rgb>>

NextRGB ==
    \/ createRGB
    \/ imshow

SpecRGB == InitRGB /\ [][NextRGB]_vars

Called_createRGB == rpc \in {"returned", "shown", "error"}

\* the channels R, G, B made from the sequence b of filter names
ChannelsOf(b) == <<b[3], b[2], b[1]>>

Channels == <<rgb.image_r, rgb.image_g, rgb.image_b>>

\* C11: for an image of exactly three bands createRGB returns the image's own
\* filters in the B, G, R channels whatever bgr is; for an image of any other
\* number of bands the channels are the bands bgr names, and the call fails
\* when bgr has fewer than three names or names a band the image lacks.
C11_BgrIgnoredForThreeBands ==
    Called_createRGB =>
        IF Len(image) = 3
        THEN rpc # "error" /\ Channels = ChannelsOf(image)
        ELSE IF Len(bgr) = 3 /\ \A k \in 1..3 : \E j \in 1..Len(image) : image[j] = bgr[k]
             THEN rpc # "error" /\ Channels = ChannelsOf(bgr)
             ELSE rpc = "error"

\* C11 witness: a three-band image was rendered with its own filters although
\* bgr named other bands, in another order
C11_Witness ==
    /\ rpc = "returned"
    /\ Len(image) = 3
    /\ Len(bgr) = 3
    /\ \A k \in 1..3 : bgr[k] # image[k]
    /\ \E k \in 1..3 : \A j \in 1..3 : image[j] # bgr[k]
    /\ Channels = ChannelsOf(image)

(***************************************************************************)
(* The calexp data-ID preview cell (SpecPreview)                           *)
(***************************************************************************)
InitPreview ==
    /\ IdleTap /\ IdleSort /\ IdleCut /\ IdleLoop /\ IdlePhase
    /\ IdleRGB /\ IdleButler /\ IdleSchema /\ IdleDetect /\ IdleNames
    /\ vpc = "query"
    /\ collection_known \in BOOLEAN
    /\ calexps \in SUBSET (1..MaxVisits)
    /\ collection_known = FALSE => calexps = {}
    /\ datasetRefs = <<>>
    /\ vi = 0
    /\ printed = <<>>

\* datasetRefs = registry.queryDatasets(datasetType='calexp',
\*                                      collections=collection)
\* the refs of the matching datasets, in no particular order; none when
\* nothing matches; an exception when the collection is not in the registry
queryDatasets ==
    /\ vpc = "query"
    /\ IF collection_known
       THEN /\ datasetRefs' \in Orderings(calexps)
            /\ vpc' = "loop"
       ELSE /\ datasetRefs' = datasetRefs
            /\ vpc' = "error"
    /\ UNCHANGED notPreview
    /\ UNCHANGED <<collection_known, calexps, vi, printed>>

\* one pass of `for i, ref in enumerate(datasetRefs)`: the prints, then
\* `if i > 2: break`
preview_body ==
    /\ vpc = "loop"
    /\ vi < Len(datasetRefs)
    /\ printed' = Append(printed, datasetRefs[vi + 1])
    /\ IF vi > 2
       THEN vpc' = "done" /\ vi' = vi
       ELSE vpc' = vpc /\ vi' = vi + 1
    /\ UNCHANGED notPreview
    /\ UNCHANGED <<collection_known, calexps, datasetRefs>>

\* datasetRefs is exhausted: the cell ends
preview_end ==
    /\ vpc = "loop"
    /\ vi = Len(datasetRefs)
    /\ vpc' = "done"
    /\ UNCHANGED notPreview
    /\ UNCHANGED <<collection_known, calexps, datasetRefs, vi, printed>>

NextPreview ==
    \/ queryDatasets
    \/ preview_body
    \/ preview_end

SpecPreview == InitPreview /\ [][NextPreview]_vars

\* C12: whenever the query matches no dataset, the preview cell ends with an
\* error.
C12_FailsWhenNothingMatches ==
    (vpc \in {"done", "error"} /\ calexps = {}) => vpc = "error"

(***************************************************************************)
(* Requests to the Butler repository (SpecButler)                          *)
(*                                                                         *)
(* An exposure is one pixel value and the state of its DETECTED mask       *)
(* plane; a background is one pixel value.                                 *)
(***************************************************************************)
Repositories == [calexp : [image : 0..1, detected : BOOLEAN],
                 calexpBackground : 1..2]

\* a notebook global: not yet assigned, or holding the object x
None == <<>>

Holding(x) == <<x>>

InitButler ==
    /\ IdleTap /\ IdleSort /\ IdleCut /\ IdleLoop /\ IdlePhase
    /\ IdleRGB /\ IdlePreview /\ IdleSchema /\ IdleDetect /\ IdleNames
    /\ bpc = "closed"
    /\ repository \in Repositories
    /\ repository0 = repository
    /\ writeable = FALSE
    /\ requests = <<>>
    /\ calexp = None
    /\ bkgd = None

\* a request reaches the repository
Request(kind) == requests' = Append(requests, kind)

CanRequest == bpc = "open" /\ Len(requests) < MaxRequests

\* butler = Butler(repo, collections=collection): no run and no
\* writeable=True, so the Butler is read-only
OpenButler ==
    /\ bpc = "closed"
    /\ bpc' = "open"
    /\ writeable' = FALSE
    /\ UNCHANGED notButler
    /\ UNCHANGED <<repository, repository0, requests, calexp, bkgd>>

\* calexp = butler.get('calexp', **dataId): a new in-memory object read
\* from the stored dataset
get_calexp ==
    /\ CanRequest
    /\ Request("get")
    /\ calexp' = Holding(repository.calexp)
    /\ UNCHANGED notButler
    /\ UNCHANGED <<bpc, repository, repository0, writeable, bkgd>>

\* bkgd = butler.get('calexpBackground', **dataId)
get_bkgd ==
    /\ CanRequest
    /\ Request("get")
    /\ bkgd' = Holding(repository.calexpBackground)
    /\ UNCHANGED notButler
    /\ UNCHANGED <<bpc, repository, repository0, writeable, calexp>>

\* butler.getURI(datasetRefs[0])
getURI ==
    /\ CanRequest
    /\ Request("getURI")
    /\ UNCHANGED notButler
    /\ UNCHANGED <<bpc, repository, repository0, writeable, calexp, bkgd>>

\* registry.queryCollections / queryDatasetTypes / queryDatasets /
\* queryDimensionRecords / getCollectionType
registry_query ==
    /\ CanRequest
    /\ Request("query")
    /\ UNCHANGED notButler
    /\ UNCHANGED <<bpc, repository, repository0, writeable, calexp, bkgd>>

\* a plausible slip: the changed exposure stored back with butler.put
removeAndClearMaskPlane_put ==
    /\ bpc = "open"
    /\ calexp # None
    /\ calexp' = [calexp EXCEPT ![1].detected = FALSE]
    /\ repository' = [repository EXCEPT !.calexp = calexp'[1]]
    /\ Request("put")
    /\ UNCHANGED notButler
    /\ UNCHANGED <<bpc, repository0, writeable, bkgd>>

\* calexp.mask.removeAndClearMaskPlane('DETECTED')
removeAndClearMaskPlane ==
    /\ bpc = "open"
    /\ calexp # None
    /\ calexp' = [calexp EXCEPT ![1].detected = FALSE]
    /\ UNCHANGED notButler
    /\ UNCHANGED <<bpc, repository, repository0, writeable, requests, bkgd>>

\* calexp.maskedImage += bkgd.getImage(); running the cell again adds the
\* background again
add_background ==
    /\ bpc = "open"
    /\ calexp # None
    /\ bkgd # None
    /\ calexp[1].image + bkgd[1] <= MaxPixel
    /\ calexp' = [calexp EXCEPT ![1].image = @ + bkgd[1]]
    /\ UNCHANGED notButler
    /\ UNCHANGED <<bpc, repository, repository0, writeable, requests, bkgd>>

NextButler ==
    \/ OpenButler
    \/ get_calexp
    \/ get_bkgd
    \/ getURI
    \/ registry_query
    \/ removeAndClearMaskPlane
    \/ add_background

SpecButler == InitButler /\ [][NextButler]_vars

ReadOnlyRequests == {"get", "getURI", "query"}

\* C13: the Butler is never opened for writing, every request made to it is
\* a get, a getURI or a registry query, and the repository holds what it held
\* before the notebook ran, whatever was done to the in-memory copies.
C13_ButlerReadOnly ==
    /\ writeable = FALSE
    /\ \A k \in 1..Len(requests) : requests[k] \in ReadOnlyRequests
    /\ repository = repository0

\* C13 witness: the DETECTED plane was cleared and the background added on
\* the in-memory exposure, and the stored exposure still has both as before
C13_Witness ==
    /\ bpc = "open"
    /\ calexp # None
    /\ bkgd # None
    /\ repository.calexp.detected = TRUE
    /\ calexp[1].detected = FALSE
    /\ calexp[1].image = repository.calexp.image + bkgd[1]

(***************************************************************************)
(* The schema-discovery cell (SpecSchema)                                  *)
(*                                                                         *)
(* A schema name is the sequence of its parts.                             *)
(***************************************************************************)
SchemaNames == {<<"dp01", "_dc2_catalogs">>, <<"old_", "dp01">>,
                <<"tap_schema">>, <<"uws">>}

\* re.search(pattern, name): whether the pattern occurs anywhere in the name
re_search(pattern, name) == \E k \in 1..Len(name) : name[k] = pattern

InitSchema ==
    /\ IdleTap /\ IdleSort /\ IdleCut /\ IdleLoop /\ IdlePhase
    /\ IdleRGB /\ IdlePreview /\ IdleButler /\ IdleDetect /\ IdleNames
    /\ hpc = "loop"
    /\ schema_names \in UNION {[1..n -> SchemaNames] : n \in 0..MaxSchemas}
    /\ name_i = 0
    /\ dp01_schema_name = None
    /\ scanned = 0
    /\ raised = ""

\* a plausible slip: the loop without its break
schema_loop_body_no_break ==
    /\ hpc = "loop"
    /\ name_i < Len(schema_names)
    /\ scanned' = scanned + 1
    /\ name_i' = name_i + 1
    /\ dp01_schema_name' = IF re_search("dp01", schema_names[name_i + 1])
                           THEN Holding(schema_names[name_i + 1])
                           ELSE dp01_schema_name
    /\ UNCHANGED notSchema
    /\ UNCHANGED <<hpc, schema_names, raised>>

\* one pass of `for name in schema_names`:
\*     if re.search('dp01', name): dp01_schema_name = name; break
schema_loop_body ==
    /\ hpc = "loop"
    /\ name_i < Len(schema_names)
    /\ scanned' = scanned + 1
    /\ IF re_search("dp01", schema_names[name_i + 1])
       THEN /\ dp01_schema_name' = Holding(schema_names[name_i + 1])
            /\ hpc' = "print"
            /\ name_i' = name_i
       ELSE /\ dp01_schema_name' = dp01_schema_name
            /\ hpc' = hpc
            /\ name_i' = name_i + 1
    /\ UNCHANGED notSchema
    /\ UNCHANGED <<schema_names, raised>>

\* schema_names is exhausted
schema_loop_end ==
    /\ hpc = "loop"
    /\ name_i = Len(schema_names)
    /\ hpc' = "print"
    /\ UNCHANGED notSchema
    /\ UNCHANGED <<schema_names, name_i, dp01_schema_name, scanned, raised>>

\* print("DP0.1 schema is " + dp01_schema_name): a NameError when the name
\* was never assigned
print_schema ==
    /\ hpc = "print"
    /\ IF dp01_schema_name = None
       THEN hpc' = "error" /\ raised' = "NameError"
       ELSE hpc' = "done" /\ raised' = raised
    /\ UNCHANGED notSchema
    /\ UNCHANGED <<schema_names, name_i, dp01_schema_name, scanned>>

NextSchema ==
    \/ schema_loop_body
    \/ schema_loop_end
    \/ print_schema

SpecSchema == InitSchema /\ [][NextSchema]_vars

HasDp01(k) == \E j \in 1..Len(schema_names[k]) : schema_names[k][j] = "dp01"

\* the place of the first schema name with 'dp01' in it; 0 when there is none
FirstDp01 ==
    IF \E k \in 1..Len(schema_names) : HasDp01(k)
    THEN CHOOSE k \in 1..Len(schema_names) : HasDp01(k) /\ \A j \in 1..(k - 1) : ~HasDp01(j)
    ELSE 0

\* C16: when the cell has ended, dp01_schema_name is the first schema name
\* that contains 'dp01' and no name after it was examined; when no schema
\* name contains 'dp01', every name was examined, dp01_schema_name is
\* unassigned and the cell ended with a NameError at the print.
C16_SchemaLoop ==
    hpc \in {"done", "error"} =>
        IF FirstDp01 # 0
        THEN /\ hpc = "done"
             /\ dp01_schema_name = <<schema_names[FirstDp01]>>
             /\ scanned = FirstDp01
        ELSE /\ hpc = "error"
             /\ raised = "NameError"
             /\ dp01_schema_name = <<>>
             /\ scanned = Len(schema_names)

\* C16 witness: the cell ended with a NameError after examining several
\* schema names, none of which has 'dp01' in it
C16_Witness ==
    /\ hpc = "error"
    /\ raised = "NameError"
    /\ Len(schema_names) >= 2
    /\ scanned = Len(schema_names)

(***************************************************************************)
(* Source detection, deblending and measurement (SpecDetect)               *)
(*                                                                         *)
(* A schema is the set of the groups of fields it holds; a catalog is the  *)
(* task that made it, its schema and its records.                          *)
(***************************************************************************)
\* the fields a task adds to the schema it is constructed with
FieldsOf(task) ==
    CASE task = "detect" -> {"detect"}
      [] task = "deblend" -> {"deblend"}
      [] task = "measure" -> {"measure"}
      [] OTHER -> {}

InitDetect ==
    /\ IdleTap /\ IdleSort /\ IdleCut /\ IdleLoop /\ IdlePhase
    /\ IdleRGB /\ IdlePreview /\ IdleButler /\ IdleSchema /\ IdleNames
    /\ dpc = "schema"
    /\ schema = {}
    /\ constructed = <<>>
    /\ tab = None
    /\ psf = 0
    /\ result = None
    /\ sources = None
    /\ ran = <<>>

unchangedBy(changed) ==
    /\ UNCHANGED notDetect
    /\ "schema" \in changed \/ UNCHANGED schema
    /\ "constructed" \in changed \/ UNCHANGED constructed
    /\ "tab" \in changed \/ UNCHANGED tab
    /\ "psf" \in changed \/ UNCHANGED psf
    /\ "result" \in changed \/ UNCHANGED result
    /\ "sources" \in changed \/ UNCHANGED sources
    /\ "ran" \in changed \/ UNCHANGED ran

\* schema = afwTable.SourceTable.makeMinimalSchema()
\* algMetadata = dafBase.PropertyList()
Cell_schema ==
    /\ dpc = "schema"
    /\ schema' = {"minimal"}
    /\ dpc' = "construct_char"
    /\ unchangedBy({"schema"})

\* a task constructed with schema=schema adds its fields to the schema
Construct(task, next) ==
    /\ constructed' = Append(constructed, task)
    /\ schema' = schema \cup FieldsOf(task)
    /\ dpc' = next
    /\ unchangedBy({"schema", "constructed"})

\* charImageTask = CharacterizeImageTask(config=config)
construct_char ==
    /\ dpc = "construct_char"
    /\ Construct("char", "construct_detect")

\* sourceDetectionTask = SourceDetectionTask(schema=schema, config=config)
construct_detect ==
    /\ dpc = "construct_detect"
    /\ Construct("detect", "construct_deblend")

\* sourceDeblendTask = SourceDeblendTask(schema=schema)
construct_deblend ==
    /\ dpc = "construct_deblend"
    /\ Construct("deblend", "construct_measure")

\* sourceMeasurementTask = SingleFrameMeasurementTask(schema=schema, ...)
construct_measure ==
    /\ dpc = "construct_measure"
    /\ Construct("measure", "make_table")

\* tab = afwTable.SourceTable.make(schema): the table keeps the schema as it
\* is now
Cell_make_table ==
    /\ dpc = "make_table"
    /\ tab' = Holding(schema)
    /\ dpc' = "characterize"
    /\ unchangedBy({"tab"})

\* a catalog made by `task` with the schema s and n sources
Catalog(task, s, n) ==
    [by |-> task, schema |-> s,
     records |-> [k \in 1..n |-> [parent |-> 0, measured |-> FALSE]]]

\* a task's run raises: the notebook stops there
TaskFails(task, cat) ==
    /\ ran' = Append(ran, [task |-> task, catalog |-> cat, ok |-> FALSE])
    /\ dpc' = "error"
    /\ unchangedBy({"ran"})

\* result = charImageTask.run(calexp): the PSF is put on calexp; the result
\* holds the task's own source catalog
Cell_characterize ==
    /\ dpc = "characterize"
    /\ \/ \E w \in 1..MaxPsf, n \in 0..1 :
             /\ psf' = w
             /\ result' = Holding([task |-> "char",
                                   sources |-> Catalog("char", {"minimal"}, n)])
             /\ ran' = Append(ran, [task |-> "char", catalog |-> "none", ok |-> TRUE])
             /\ dpc' = "detect"
             /\ unchangedBy({"psf", "result", "ran"})
       \/ TaskFails("char", "none")

\* a plausible slip: the result of the detection not kept
Cell_detect_result_dropped ==
    /\ dpc = "detect"
    /\ ran' = Append(ran, [task |-> "detect", catalog |-> "none", ok |-> TRUE])
    /\ dpc' = "sources"
    /\ unchangedBy({"ran"})

\* result = sourceDetectionTask.run(tab, calexp): a new catalog with the
\* table's schema and one record per source found; the table must hold the
\* task's fields
Cell_detect ==
    /\ dpc = "detect"
    /\ \/ /\ FieldsOf("detect") \subseteq tab[1]
          /\ \E n \in 0..MaxSources :
                /\ result' = Holding([task |-> "detect",
                                      sources |-> Catalog("detect", tab[1], n)])
                /\ ran' = Append(ran, [task |-> "detect", catalog |-> "none", ok |-> TRUE])
                /\ dpc' = "sources"
                /\ unchangedBy({"result", "ran"})
       \/ TaskFails("detect", "none")

\* sources = result.sources
Cell_sources ==
    /\ dpc = "sources"
    /\ sources' = Holding(result[1].sources)
    /\ dpc' = "deblend"
    /\ unchangedBy({"sources"})

\* the records of a catalog after deblending: every blended parent gets two
\* children
Deblended(records, blended) ==
    LET parents == [k \in 1..Cardinality(blended) |->
                      CHOOSE p \in blended : Cardinality({q \in blended : q < p}) = k - 1]
        children(p) == <<[parent |-> p, measured |-> FALSE],
                         [parent |-> p, measured |-> FALSE]>>
        F[k \in 0..Cardinality(blended)] ==
            IF k = 0 THEN records ELSE F[k - 1] \o children(parents[k])
    IN F[Cardinality(blended)]

\* sourceDeblendTask.run(calexp, sources): children are added to the catalog
\* in place; the catalog must hold the task's fields
Cell_deblend ==
    /\ dpc = "deblend"
    /\ LET cat == sources[1] IN
       \/ /\ FieldsOf("deblend") \subseteq cat.schema
          /\ \E blended \in SUBSET (1..Len(cat.records)) :
                sources' = Holding([cat EXCEPT !.records = Deblended(cat.records, blended)])
          /\ ran' = Append(ran, [task |-> "deblend", catalog |-> cat.by, ok |-> TRUE])
          /\ dpc' = "measure"
          /\ unchangedBy({"sources", "ran"})
       \/ TaskFails("deblend", cat.by)

\* sourceMeasurementTask.run(measCat=sources, exposure=calexp): every record
\* is measured in place; the catalog must hold the task's fields
Cell_measure ==
    /\ dpc = "measure"
    /\ LET cat == sources[1] IN
       \/ /\ FieldsOf("measure") \subseteq cat.schema
          /\ sources' = Holding([cat EXCEPT !.records =
                            [k \in 1..Len(cat.records) |->
                                [cat.records[k] EXCEPT !.measured = TRUE]]])
          /\ ran' = Append(ran, [task |-> "measure", catalog |-> cat.by, ok |-> TRUE])
          /\ dpc' = "done"
          /\ unchangedBy({"sources", "ran"})
       \/ TaskFails("measure", cat.by)

NextDetect ==
    \/ Cell_schema
    \/ construct_char
    \/ construct_detect
    \/ construct_deblend
    \/ construct_measure
    \/ Cell_make_table
    \/ Cell_characterize
    \/ Cell_detect
    \/ Cell_sources
    \/ Cell_deblend
    \/ Cell_measure

SpecDetect == InitDetect /\ [][NextDetect]_vars

RunOrder == <<"char", "detect", "deblend", "measure">>

WasConstructed(task) == \E k \in 1..Len(constructed) : constructed[k] = task

\* C15: the SourceTable is made only after the detection, deblending and
\* measurement tasks were constructed with the schema, and holds the fields
\* of all three; the tasks run in the order characterize, detect, deblend,
\* measure; deblend and measure are given the catalog detect produced.
C15_TaskOrder ==
    /\ tab # <<>> =>
          /\ \A task \in {"detect", "deblend", "measure"} : WasConstructed(task)
          /\ tab[1] = {"minimal", "detect", "deblend", "measure"}
    /\ Len(ran) <= Len(RunOrder)
    /\ \A k \in 1..Len(ran) :
          /\ ran[k].task = RunOrder[k]
          /\ ran[k].task \in {"deblend", "measure"} => ran[k].catalog = "detect"
          /\ k < Len(ran) => ran[k].ok

\* C15 witness: all four tasks ran; sources were found, one was deblended
\* into children, and all records were measured
C15_Witness ==
    /\ dpc = "done"
    /\ Len(ran) = 4
    /\ sources[1].by = "detect"
    /\ Len(sources[1].records) >= 3
    /\ \E k \in 1..Len(sources[1].records) : sources[1].records[k].parent # 0
    /\ \A k \in 1..Len(sources[1].records) : sources[1].records[k].measured

(***************************************************************************)
(* Names read and assigned by the TAP notebook's statements (SpecNames)    *)
(*                                                                         *)
(* Every top-level statement of the notebook's code cells, in order, with  *)
(* its first line in the source, the global names it reads (names read in  *)
(* the body of a function count where the function is called), the names   *)
(* it assigns, and the names it assigns only if its loop runs and its      *)
(* condition is met, outermost first.                                      *)
(***************************************************************************)
Statements == <<
    [line |-> 1068, reads |-> {}, writes |-> {"np"}, maybe |-> <<>>],
    [line |-> 1069, reads |-> {}, writes |-> {"re"}, maybe |-> <<>>],
    [line |-> 1070, reads |-> {}, writes |-> {"pandas"}, maybe |-> <<>>],
    [line |-> 1071, reads |-> {}, writes |-> {"assert_frame_equal"}, maybe |-> <<>>],
    [line |-> 1074, reads |-> {}, writes |-> {"get_tap_service", "retrieve_query"}, maybe |-> <<>>],
    [line |-> 1077, reads |-> {}, writes |-> {"u"}, maybe |-> <<>>],
    [line |-> 1078, reads |-> {}, writes |-> {"SkyCoord"}, maybe |-> <<>>],
    [line |-> 1081, reads |-> {}, writes |-> {"bokeh"}, maybe |-> <<>>],
    [line |-> 1082, reads |-> {},
     writes |-> {"output_file", "output_notebook", "show"}, maybe |-> <<>>],
    [line |-> 1083, reads |-> {}, writes |-> {"gridplot"}, maybe |-> <<>>],
    [line |-> 1084, reads |-> {},
     writes |-> {"CDSView", "ColumnDataSource", "GroupFilter", "HoverTool"}, maybe |-> <<>>],
    [line |-> 1085, reads |-> {}, writes |-> {"figure"}, maybe |-> <<>>],
    [line |-> 1086, reads |-> {}, writes |-> {"factor_cmap"}, maybe |-> <<>>],
    [line |-> 1088, reads |-> {}, writes |-> {"hv"}, maybe |-> <<>>],
    [line |-> 1091, reads |-> {"pandas"}, writes |-> {}, maybe |-> <<>>],
    [line |-> 1094, reads |-> {"output_notebook"}, writes |-> {}, maybe |-> <<>>],
    [line |-> 1104, reads |-> {}, writes |-> {"warnings"}, maybe |-> <<>>],
    [line |-> 1105, reads |-> {}, writes |-> {"UnitsWarning"}, maybe |-> <<>>],
    [line |-> 1106, reads |-> {"UnitsWarning", "warnings"}, writes |-> {}, maybe |-> <<>>],
    [line |-> 1123, reads |-> {}, writes |-> {"sort_dataframe"}, maybe |-> <<>>],
    [line |-> 1156, reads |-> {"get_tap_service"}, writes |-> {"service"}, maybe |-> <<>>],
    [line |-> 1157, reads |-> {"service"}, writes |-> {}, maybe |-> <<>>],
    [line |-> 1158, reads |-> {"service"}, writes |-> {}, maybe |-> <<>>],
    [line |-> 1177, reads |-> {}, writes |-> {"query"}, maybe |-> <<>>],
    [line |-> 1180, reads |-> {"query", "service"}, writes |-> {"results"}, maybe |-> <<>>],
    [line |-> 1183, reads |-> {"results"}, writes |-> {}, maybe |-> <<>>],
    [line |-> 1193, reads |-> {"query", "service"}, writes |-> {"results"}, maybe |-> <<>>],
    [line |-> 1193, reads |-> {"results"}, writes |-> {}, maybe |-> <<>>],
    [line |-> 1213, reads |-> {"results"}, writes |-> {"schema_names"}, maybe |-> <<>>],
    [line |-> 1214, reads |-> {"re", "schema_names"},
     writes |-> {}, maybe |-> <<"name", "dp01_schema_name">>],
    [line |-> 1218, reads |-> {"dp01_schema_name"}, writes |-> {}, maybe |-> <<>>],
    [line |-> 1235, reads |-> {"dp01_schema_name"}, writes |-> {"query"}, maybe |-> <<>>],
    [line |-> 1238, reads |-> {"query"}, writes |-> {}, maybe |-> <<>>],
    [line |-> 1248, reads |-> {"query", "service"}, writes |-> {"results"}, maybe |-> <<>>],
    [line |-> 1249, reads |-> {"results"}, writes |-> {"results"}, maybe |-> <<>>],
    [line |-> 1249, reads |-> {"results"}, writes |-> {}, maybe |-> <<>>],
    [line |-> 1293, reads |-> {}, writes |-> {"max_rec"}, maybe |-> <<>>],
    [line |-> 1298, reads |-> {"max_rec"}, writes |-> {"query"}, maybe |-> <<>>],
    [line |-> 1304, reads |-> {"query"}, writes |-> {}, maybe |-> <<>>],
    [line |-> 1314, reads |-> {"query", "service"}, writes |-> {"results"}, maybe |-> <<>>],
    [line |-> 1315, reads |-> {"max_rec", "results"}, writes |-> {}, maybe |-> <<>>],
    [line |-> 1325, reads |-> {}, writes |-> {"query"}, maybe |-> <<>>],
    [line |-> 1330, reads |-> {"max_rec", "query", "service"},
     writes |-> {"results1"}, maybe |-> <<>>],
    [line |-> 1331, reads |-> {"max_rec", "results1"}, writes |-> {}, maybe |-> <<>>],
    [line |-> 1342, reads |-> {"assert_frame_equal", "np", "results", "results1", "sort_dataframe"},
     writes |-> {}, maybe |-> <<>>],
    [line |-> 1364, reads |-> {"SkyCoord", "u"}, writes |-> {"coord"}, maybe |-> <<>>],
    [line |-> 1365, reads |-> {"u"}, writes |-> {"radius"}, maybe |-> <<>>],
    [line |-> 1374, reads |-> {"coord", "radius"}, writes |-> {"query"}, maybe |-> <<>>],
    [line |-> 1383, reads |-> {"query"}, writes |-> {}, maybe |-> <<>>],
    [line |-> 1394, reads |-> {"query", "service"}, writes |-> {"results"}, maybe |-> <<>>],
    [line |-> 1397, reads |-> {"results"}, writes |-> {}, maybe |-> <<>>],
    [line |-> 1417, reads |-> {"coord", "radius"}, writes |-> {"query"}, maybe |-> <<>>],
    [line |-> 1441, reads |-> {"query", "service"}, writes |-> {"results"}, maybe |-> <<>>],
    [line |-> 1442, reads |-> {"results"}, writes |-> {}, maybe |-> <<>>],
    [line |-> 1460, reads |-> {"results"}, writes |-> {"n_stars"}, maybe |-> <<>>],
    [line |-> 1461, reads |-> {"n_stars", "results"}, writes |-> {}, maybe |-> <<>>],
    [line |-> 1462, reads |-> {"results"}, writes |-> {}, maybe |-> <<>>],
    [line |-> 1463, reads |-> {"results"}, writes |-> {}, maybe |-> <<>>],
    [line |-> 1481, reads |-> {}, writes |-> {"query_histogram"}, maybe |-> <<>>],
    [line |-> 1485, reads |-> {"query_histogram"}, writes |-> {}, maybe |-> <<>>],
    [line |-> 1494, reads |-> {"query_histogram", "service"},
     writes |-> {"object_type_histogram"}, maybe |-> <<>>],
    [line |-> 1504, reads |-> {}, writes |-> {"object_map"}, maybe |-> <<>>],
    [line |-> 1505, reads |-> {"object_map", "object_type_histogram"},
     writes |-> {}, maybe |-> <<>>],
    [line |-> 1506, reads |-> {"object_type_histogram"}, writes |-> {}, maybe |-> <<>>],
    [line |-> 1541, reads |-> {"coord", "results"}, writes |-> {"data"}, maybe |-> <<>>],
    [line |-> 1549, reads |-> {"ColumnDataSource", "data"}, writes |-> {"source"}, maybe |-> <<>>],
    [line |-> 1552, reads |-> {"results", "source"}, writes |-> {}, maybe |-> <<>>],
    [line |-> 1556, reads |-> {"object_map", "results", "source"}, writes |-> {}, maybe |-> <<>>],
    [line |-> 1566, reads |-> {"source"}, writes |-> {}, maybe |-> <<>>],
    [line |-> 1585, reads |-> {}, writes |-> {"plot_options"}, maybe |-> <<>>],
    [line |-> 1588, reads |-> {}, writes |-> {"tooltips"}, maybe |-> <<>>],
    [line |-> 1595, reads |-> {"HoverTool", "tooltips"},
     writes |-> {"hover_tool_cmd"}, maybe |-> <<>>],
    [line |-> 1605, reads |-> {"figure", "plot_options"}, writes |-> {"p"}, maybe |-> <<>>],
    [line |-> 1611, reads |-> {}, writes |-> {"truth_type_palette"}, maybe |-> <<>>],
    [line |-> 1612, reads |-> {"hover_tool_cmd", "p"}, writes |-> {}, maybe |-> <<>>],
    [line |-> 1613, reads |-> {"factor_cmap", "p", "source", "truth_type_palette"},
     writes |-> {}, maybe |-> <<>>],
    [line |-> 1620, reads |-> {"p", "show"}, writes |-> {}, maybe |-> <<>>],
    [line |-> 1639, reads |-> {"results", "source"}, writes |-> {}, maybe |-> <<>>],
    [line |-> 1640, reads |-> {"results", "source"}, writes |-> {}, maybe |-> <<>>],
    [line |-> 1651, reads |-> {"CDSView", "GroupFilter", "source"},
     writes |-> {"stars"}, maybe |-> <<>>],
    [line |-> 1662, reads |-> {}, writes |-> {"plot_options"}, maybe |-> <<>>],
    [line |-> 1668, reads |-> {"HoverTool"}, writes |-> {"hover_tool"}, maybe |-> <<>>],
    [line |-> 1675, reads |-> {"coord"}, writes |-> {"title_spatial"}, maybe |-> <<>>],
    [line |-> 1678, reads |-> {"figure", "plot_options", "title_spatial"},
     writes |-> {"fig_spatial"}, maybe |-> <<>>],
    [line |-> 1681, reads |-> {"fig_spatial", "source", "stars"}, writes |-> {}, maybe |-> <<>>],
    [line |-> 1685, reads |-> {"fig_spatial", "hover_tool"}, writes |-> {}, maybe |-> <<>>],
    [line |-> 1688, reads |-> {"figure", "plot_options"}, writes |-> {"fig_cmag"}, maybe |-> <<>>],
    [line |-> 1692, reads |-> {"fig_cmag", "source", "stars"}, writes |-> {}, maybe |-> <<>>],
    [line |-> 1695, reads |-> {"fig_cmag", "hover_tool"}, writes |-> {}, maybe |-> <<>>],
    [line |-> 1698, reads |-> {"figure", "plot_options"}, writes |-> {"fig_cc"}, maybe |-> <<>>],
    [line |-> 1702, reads |-> {"fig_cc", "source", "stars"}, writes |-> {}, maybe |-> <<>>],
    [line |-> 1705, reads |-> {"fig_cc", "hover_tool"}, writes |-> {}, maybe |-> <<>>],
    [line |-> 1708, reads |-> {"fig_cc", "fig_cmag", "fig_spatial", "gridplot"},
     writes |-> {"p"}, maybe |-> <<>>],
    [line |-> 1709, reads |-> {"p", "show"}, writes |-> {}, maybe |-> <<>>],
    [line |-> 1741, reads |-> {"results", "source"}, writes |-> {}, maybe |-> <<>>],
    [line |-> 1742, reads |-> {"results", "source"}, writes |-> {}, maybe |-> <<>>],
    [line |-> 1753, reads |-> {}, writes |-> {"plot_options"}, maybe |-> <<>>],
    [line |-> 1757, reads |-> {}, writes |-> {"tooltips"}, maybe |-> <<>>],
    [line |-> 1762, reads |-> {"HoverTool", "tooltips"}, writes |-> {"hover_tool"}, maybe |-> <<>>],
    [line |-> 1765, reads |-> {"figure", "plot_options"}, writes |-> {"p"}, maybe |-> <<>>],
    [line |-> 1771, reads |-> {"factor_cmap", "p", "source", "truth_type_palette"},
     writes |-> {}, maybe |-> <<>>],
    [line |-> 1779, reads |-> {"hover_tool", "p"}, writes |-> {}, maybe |-> <<>>],
    [line |-> 1782, reads |-> {"p", "show"}, writes |-> {}, maybe |-> <<>>],
    [line |-> 1811, reads |-> {"query", "service"}, writes |-> {"job"}, maybe |-> <<>>],
    [line |-> 1814, reads |-> {"job"}, writes |-> {}, maybe |-> <<>>],
    [line |-> 1817, reads |-> {"job"}, writes |-> {}, maybe |-> <<>>],
    [line |-> 1828, reads |-> {"job"}, writes |-> {}, maybe |-> <<>>],
    [line |-> 1840, reads |-> {"job"}, writes |-> {}, maybe |-> <<>>],
    [line |-> 1841, reads |-> {"job"}, writes |-> {}, maybe |-> <<>>],
    [line |-> 1851, reads |-> {"job"}, writes |-> {}, maybe |-> <<>>],
    [line |-> 1861, reads |-> {"job"}, writes |-> {"async_results"}, maybe |-> <<>>],
    [line |-> 1865, reads |-> {"async_results"}, writes |-> {}, maybe |-> <<>>],
    [line |-> 1866, reads |-> {"assert_frame_equal", "async_results", "np", "results",
          "sort_dataframe"},
     writes |-> {}, maybe |-> <<>>],
    [line |-> 1884, reads |-> {"job", "retrieve_query"},
     writes |-> {"retrieved_job"}, maybe |-> <<>>],
    [line |-> 1885, reads |-> {"retrieved_job"}, writes |-> {"retrieved_results"}, maybe |-> <<>>],
    [line |-> 1886, reads |-> {"retrieved_results"}, writes |-> {}, maybe |-> <<>>],
    [line |-> 1887, reads |-> {"assert_frame_equal", "async_results", "np", "retrieved_results",
          "sort_dataframe"},
     writes |-> {}, maybe |-> <<>>],
    [line |-> 1905, reads |-> {"job"}, writes |-> {}, maybe |-> <<>>]
>>

InitNames ==
    /\ IdleTap /\ IdleSort /\ IdleCut /\ IdleLoop /\ IdlePhase
    /\ IdleRGB /\ IdlePreview /\ IdleButler /\ IdleSchema /\ IdleDetect
    /\ stmt = 1
    /\ namespace = {}
    /\ name_error = ""

\* the next statement runs: every name it reads is assigned; the names it
\* assigns are added, and of those it assigns conditionally the ones its
\* loop and condition reached
run_statement ==
    /\ stmt <= Len(Statements)
    /\ name_error = ""
    /\ LET s == Statements[stmt] IN
         /\ s.reads \subseteq namespace
         /\ \E k \in 0..Len(s.maybe) :
               namespace' = namespace \cup s.writes \cup {s.maybe[j] : j \in 1..k}
    /\ stmt' = stmt + 1
    /\ UNCHANGED notNames
    /\ UNCHANGED name_error

\* the next statement reads a name that was never assigned: NameError, and
\* the run stops
raise_NameError ==
    /\ stmt <= Len(Statements)
    /\ name_error = ""
    /\ LET s == Statements[stmt] IN
         /\ ~(s.reads \subseteq namespace)
         /\ name_error' = CHOOSE n \in s.reads : n \notin namespace
    /\ UNCHANGED notNames
    /\ UNCHANGED <<stmt, namespace>>

NextNames ==
    \/ run_statement
    \/ raise_NameError

SpecNames == InitNames /\ [][NextNames]_vars

\* C14: run once, top to bottom, no statement reads a name before an
\* earlier statement has assigned it.
C14_NoReadBeforeAssignment ==
    name_error = ""

====
